---- MODULE Spec2Model ----
(***************************************************************************)
(* State-machine model of seo-monitoring.py: the SEOMonitor probes, the    *)
(* monitoring cycle run on a ThreadPoolExecutor, save_results and the      *)
(* scheduling loop of main().                                              *)
(*                                                                         *)
(* Python values are encoded as follows.  An optional value (None or v) is *)
(* the sequence <<>> or <<v>>.  A dict is a record whose DOMAIN is the set *)
(* of its keys.  Websites and keywords are named by their index in the     *)
(* configured lists.  The timestamp of a dict is left out; the time at     *)
(* which save_results is called is an input of save_results.               *)
(***************************************************************************)
EXTENDS Integers, Sequences, FiniteSets, TLC

\* ---- bounds of the model ----
MaxWebsites == 2
MaxKeywords == 2
MaxEntries == 2
MaxTime == 2
MaxListing == 3
MaxBatchWebsites == 1
MaxBatchKeywords == 1

\* ---- program constants ----
max_workers == 5

VARIABLES
    mainpc,     \* position of the main thread in main()
    websites,   \* self.websites
    keywords,   \* self.keywords
    due,        \* the scheduled job's next_run has been reached
    cpc,        \* position of the main thread inside run_monitoring_cycle
    wi,         \* index of the website of the running for loop
    ki,         \* index of the keyword of the running inner for loop
    results,    \* the local list results of run_monitoring_cycle
    pool,       \* work items of the executor that are not yet collected
    dispatched, \* work items submitted to the executor in this cycle
    errlog,     \* work items whose probe logged an error in this cycle
    completed,  \* work items whose probe has returned in this cycle
    csv,        \* seo_results_<timestamp>.csv of this cycle, <<>> until written
    report,     \* lines of seo_report_<timestamp>.txt of this cycle
    saved,      \* how save_results of this cycle ended
    results_df, \* self.results_df
    fn_call,    \* a function called on its own: its name and arguments
    fn_ret      \* what that call returned

vars == <<mainpc, websites, keywords, due, cpc, wi, ki, results, pool,
          dispatched, errlog, completed, csv, report, saved, results_df,
          fn_call, fn_ret>>

None == <<>>
Some(v) == <<v>>

\* ---- work items ----
RankItem(w, k) == [kind |-> "rank", website |-> w, keyword |-> k]
MetaItem(w) == [kind |-> "meta", website |-> w, keyword |-> 0]
PerfItem(w) == [kind |-> "perf", website |-> w, keyword |-> 0]

\* ---- the probes, as functions of what the network returns ----

\* check_keyword_ranking: fetch is [raised |-> BOOLEAN, entries |-> Seq],
\* entries[i] being the configured website the i-th div.g mentions (0: none).
\* enumerate(search_results) without the start value 1
RECURSIVE FirstMatchZeroBased(_, _, _)
FirstMatchZeroBased(entries, website, position) ==
    IF position > Len(entries) THEN None
    ELSE IF entries[position] = website THEN Some(position - 1)
    ELSE FirstMatchZeroBased(entries, website, position + 1)

\* a scan without the return inside the loop: the last match wins
RECURSIVE FirstMatchLast(_, _, _)
FirstMatchLast(entries, website, position) ==
    IF position > Len(entries) THEN None
    ELSE LET later == FirstMatchLast(entries, website, position + 1)
         IN IF later # None THEN later
            ELSE IF entries[position] = website THEN Some(position)
            ELSE None

RECURSIVE FirstMatch(_, _, _)
FirstMatch(entries, website, position) ==
    IF position > Len(entries) THEN None
    ELSE IF entries[position] = website THEN Some(position)
    ELSE FirstMatch(entries, website, position + 1)

check_keyword_ranking(website, keyword, fetch) ==
    IF fetch.raised THEN None
    ELSE Some([website |-> website, keyword |-> keyword,
               position |-> FirstMatch(fetch.entries, website, 1)])

\* analyze_meta_tags: fetch is [raised |-> BOOLEAN]; raise_for_status is part
\* of what may raise.
analyze_meta_tags(url, fetch) ==
    IF fetch.raised THEN None
    ELSE Some([url |-> url, title |-> Some("title"), h1_count |-> 1,
               img_alt_missing |-> 0])

\* check_site_performance with a response.raise_for_status()
check_site_performanceRaising(url, fetch) ==
    IF fetch.raised \/ fetch.status # 200 THEN None
    ELSE Some([url |-> url, status_code |-> fetch.status, response_time |-> 1])

\* check_site_performance: fetch is [raised |-> BOOLEAN, status |-> Int];
\* there is no raise_for_status, so any status is returned as data.
check_site_performance(url, fetch) ==
    IF fetch.raised THEN None
    ELSE Some([url |-> url, status_code |-> fetch.status, response_time |-> 1])

\* if result: -- None is falsy, a non-empty dict is truthy
Truthy(result) == result # None

\* ---- what the network may return ----
Listings == UNION {[1..n -> 0..MaxWebsites] : n \in 0..MaxEntries}
RankFetches == {[raised |-> TRUE, entries |-> <<>>]}
               \cup {[raised |-> FALSE, entries |-> e] : e \in Listings}
MetaFetches == {[raised |-> r] : r \in BOOLEAN}
StatusCodes == {200, 404}
PerfFetches == {[raised |-> TRUE, status |-> 0]}
               \cup {[raised |-> FALSE, status |-> s] : s \in StatusCodes}

ProbeReturns(item) ==
    IF item.kind = "rank"
    THEN {check_keyword_ranking(item.website, item.keyword, f) : f \in RankFetches}
    ELSE IF item.kind = "meta"
    THEN {analyze_meta_tags(item.website, f) : f \in MetaFetches}
    ELSE {check_site_performance(item.website, f) : f \in PerfFetches}

\* ---- the executor ----
Task(item, status, ret) == [item |-> item, status |-> status, ret |-> ret]
Running == {t \in pool : t.status \in {"running", "hung"}}
\* future.result() that does not wait for the work item to finish
IsDoneNoWait(item) == \E t \in pool : t.item = item
IsDone(item) == \E t \in pool : t.item = item /\ t.status = "done"
ResultOf(item) == (CHOOSE t \in pool : t.item = item).ret

Init ==
    /\ mainpc = "load"
    /\ websites = <<>>
    /\ keywords = <<>>
    /\ due = FALSE
    /\ cpc = "idle"
    /\ wi = 0
    /\ ki = 0
    /\ results = <<>>
    /\ pool = {}
    /\ dispatched = <<>>
    /\ errlog = {}
    /\ completed = {}
    /\ csv = None
    /\ report = <<>>
    /\ saved = "no"
    /\ results_df = None
    /\ fn_call = None
    /\ fn_ret = None

\* SEOMonitor(): load_config reads the lists, or raises and ends the process;
\* then results_df is set to an empty DataFrame
LoadConfig ==
    /\ mainpc = "load"
    /\ \/ \E nw \in 0..MaxWebsites, nk \in 0..MaxKeywords :
            /\ websites' = [i \in 1..nw |-> i]
            /\ keywords' = [i \in 1..nk |-> i]
            /\ results_df' = Some([columns |-> {}, rows |-> <<>>])
            /\ mainpc' = "schedule"
       \/ /\ mainpc' = "config_failed"
          /\ UNCHANGED <<websites, keywords, results_df>>
    /\ UNCHANGED <<due, cpc, wi, ki, results, pool, dispatched, errlog, completed, csv,
                   report, saved, fn_call, fn_ret>>

\* schedule.every(check_interval).seconds.do(run_monitoring_cycle)
ScheduleJob ==
    /\ mainpc = "schedule"
    /\ mainpc' = "initial"
    /\ due' = FALSE
    /\ UNCHANGED <<websites, keywords, cpc, wi, ki, results, pool, dispatched,
                   errlog, completed, csv, report, saved,
                   results_df, fn_call, fn_ret>>

\* check_interval seconds have passed since the job was (re)scheduled
Tick ==
    /\ mainpc \in {"initial", "initial_cycle", "loop", "job_cycle"}
    /\ ~due
    /\ due' = TRUE
    /\ UNCHANGED <<mainpc, websites, keywords, cpc, wi, ki, results, pool,
                   dispatched, errlog, completed, csv, report, saved,
                   results_df, fn_call, fn_ret>>

\* run_monitoring_cycle that keeps the list of the cycle before (a list held
\* in a field of the monitor instead of a local)
EnterCycleKeepBatch ==
    /\ cpc' = "rank"
    /\ wi' = 1
    /\ ki' = 1
    /\ results' = results
    /\ pool' = {}
    /\ dispatched' = <<>>
    /\ errlog' = {}
    /\ completed' = {}
    /\ csv' = None
    /\ report' = <<>>
    /\ saved' = "no"

\* entry of run_monitoring_cycle: results = [], the executor is created
EnterCycle ==
    /\ cpc' = "rank"
    /\ wi' = 1
    /\ ki' = 1
    /\ results' = <<>>
    /\ pool' = {}
    /\ dispatched' = <<>>
    /\ errlog' = {}
    /\ completed' = {}
    /\ csv' = None
    /\ report' = <<>>
    /\ saved' = "no"

\* monitor.run_monitoring_cycle() of main
RunInitial ==
    /\ mainpc = "initial"
    /\ mainpc' = "initial_cycle"
    /\ EnterCycle
    /\ UNCHANGED <<websites, keywords, due, results_df, fn_call, fn_ret>>

\* a scheduler that runs the due job although a cycle is still running
RunPendingOverlapping ==
    /\ mainpc \in {"loop", "initial_cycle", "job_cycle"}
    /\ due
    /\ mainpc' = "job_cycle"
    /\ EnterCycle
    /\ UNCHANGED <<websites, keywords, due, results_df, fn_call, fn_ret>>

\* schedule.run_pending() of the loop, when the job is due
RunPending ==
    /\ mainpc = "loop"
    /\ due
    /\ mainpc' = "job_cycle"
    /\ EnterCycle
    /\ UNCHANGED <<websites, keywords, due, results_df, fn_call, fn_ret>>

InCycle == mainpc \in {"initial_cycle", "job_cycle"}

\* the first loop submitting every rank check without waiting for the one
\* before
RankSubmitNoWait ==
    /\ InCycle /\ cpc = "rank"
    /\ IF wi <= Len(websites) /\ Len(keywords) > 0
       THEN /\ pool' = pool \cup {Task(RankItem(websites[wi], keywords[ki]), "queued", None)}
            /\ dispatched' = Append(dispatched, RankItem(websites[wi], keywords[ki]))
            /\ cpc' = "rank"
            /\ IF ki < Len(keywords)
               THEN ki' = ki + 1 /\ wi' = wi
               ELSE ki' = 1 /\ wi' = wi + 1
       ELSE /\ cpc' = "site"
            /\ wi' = 1
            /\ ki' = 1
            /\ UNCHANGED <<pool, dispatched>>
    /\ UNCHANGED <<mainpc, websites, keywords, due, results, errlog, completed, csv,
                   report, saved, results_df, fn_call, fn_ret>>

\* first loop: executor.submit(self.check_keyword_ranking, website, keyword),
\* or the end of the loop when no pair is left
RankSubmit ==
    /\ InCycle /\ cpc = "rank"
    /\ IF wi <= Len(websites) /\ Len(keywords) > 0
       THEN /\ pool' = pool \cup {Task(RankItem(websites[wi], keywords[ki]), "queued", None)}
            /\ dispatched' = Append(dispatched, RankItem(websites[wi], keywords[ki]))
            /\ cpc' = "rank_wait"
            /\ UNCHANGED <<wi, ki>>
       ELSE /\ cpc' = "site"
            /\ wi' = 1
            /\ ki' = 1
            /\ UNCHANGED <<pool, dispatched>>
    /\ UNCHANGED <<mainpc, websites, keywords, due, results, errlog, completed, csv,
                   report, saved,
                   results_df, fn_call, fn_ret>>

\* results = [result] instead of results.append(result)
RankCollectOverwrite ==
    /\ InCycle /\ cpc = "rank_wait"
    /\ LET item == RankItem(websites[wi], keywords[ki])
           result == ResultOf(item)
       IN /\ IsDone(item)
          /\ results' = IF Truthy(result) THEN <<result[1]>> ELSE results
          /\ pool' = {t \in pool : t.item # item}
    /\ IF ki < Len(keywords)
       THEN ki' = ki + 1 /\ wi' = wi
       ELSE ki' = 1 /\ wi' = wi + 1
    /\ cpc' = "rank"
    /\ UNCHANGED <<mainpc, websites, keywords, due, dispatched, errlog, completed, csv,
                   report, saved, results_df, fn_call, fn_ret>>

\* a rank check that returned None is submitted again
RankCollectRetry ==
    /\ InCycle /\ cpc = "rank_wait"
    /\ LET item == RankItem(websites[wi], keywords[ki])
           result == ResultOf(item)
       IN /\ IsDone(item)
          /\ results' = IF Truthy(result) THEN Append(results, result[1]) ELSE results
          /\ pool' = {t \in pool : t.item # item}
          /\ IF ~Truthy(result) THEN ki' = ki /\ wi' = wi
             ELSE IF ki < Len(keywords)
             THEN ki' = ki + 1 /\ wi' = wi
             ELSE ki' = 1 /\ wi' = wi + 1
    /\ cpc' = "rank"
    /\ UNCHANGED <<mainpc, websites, keywords, due, dispatched, errlog, completed, csv,
                   report, saved, results_df, fn_call, fn_ret>>

\* result = future.result(); if result: results.append(result)
RankCollect ==
    /\ InCycle /\ cpc = "rank_wait"
    /\ LET item == RankItem(websites[wi], keywords[ki])
           result == ResultOf(item)
       IN /\ IsDone(item)
          /\ results' = IF Truthy(result) THEN Append(results, result[1]) ELSE results
          /\ pool' = {t \in pool : t.item # item}
    /\ IF ki < Len(keywords)
       THEN ki' = ki + 1 /\ wi' = wi
       ELSE ki' = 1 /\ wi' = wi + 1
    /\ cpc' = "rank"
    /\ UNCHANGED <<mainpc, websites, keywords, due, dispatched, errlog, completed, csv,
                   report, saved,
                   results_df, fn_call, fn_ret>>

\* second loop: submit analyze_meta_tags and check_site_performance of one
\* website, or leave the with block when no website is left
SiteSubmit ==
    /\ InCycle /\ cpc = "site"
    /\ IF wi <= Len(websites)
       THEN /\ pool' = pool \cup {Task(MetaItem(websites[wi]), "queued", None),
                                  Task(PerfItem(websites[wi]), "queued", None)}
            /\ dispatched' = dispatched \o <<MetaItem(websites[wi]), PerfItem(websites[wi])>>
            /\ cpc' = "meta_wait"
       ELSE /\ cpc' = "shutdown"
            /\ UNCHANGED <<pool, dispatched>>
    /\ UNCHANGED <<mainpc, websites, keywords, due, wi, ki, results, errlog, completed,
                   csv, report, saved,
                   results_df, fn_call, fn_ret>>

\* meta_result = meta_future.result()
MetaCollect ==
    /\ InCycle /\ cpc = "meta_wait"
    /\ IsDone(MetaItem(websites[wi]))
    /\ cpc' = "perf_wait"
    /\ UNCHANGED <<mainpc, websites, keywords, due, wi, ki, results, pool,
                   dispatched, errlog, completed, csv, report, saved,
                   results_df, fn_call, fn_ret>>

\* perf_result = perf_future.result(), then the two appends
PerfCollect ==
    /\ InCycle /\ cpc = "perf_wait"
    /\ LET meta == MetaItem(websites[wi])
           perf == PerfItem(websites[wi])
           meta_result == ResultOf(meta)
           perf_result == ResultOf(perf)
           with_meta == IF Truthy(meta_result) THEN Append(results, meta_result[1])
                        ELSE results
       IN /\ IsDone(perf)
          /\ results' = IF Truthy(perf_result) THEN Append(with_meta, perf_result[1])
                        ELSE with_meta
          /\ pool' = {t \in pool : t.item \notin {meta, perf}}
    /\ wi' = wi + 1
    /\ cpc' = "site"
    /\ UNCHANGED <<mainpc, websites, keywords, due, ki, dispatched, errlog, completed, csv,
                   report, saved,
                   results_df, fn_call, fn_ret>>

\* end of the with block: executor.shutdown(wait=True)
Shutdown ==
    /\ InCycle /\ cpc = "shutdown"
    /\ \A t \in pool : t.status = "done"
    /\ cpc' = "save"
    /\ UNCHANGED <<mainpc, websites, keywords, due, wi, ki, results, pool,
                   dispatched, errlog, completed, csv, report, saved,
                   results_df, fn_call, fn_ret>>

\* a worker thread of the executor takes a queued work item
WorkerStart ==
    /\ \E t \in pool :
          /\ t.status = "queued"
          /\ Cardinality(Running) < max_workers
          /\ pool' = (pool \ {t}) \cup {Task(t.item, "running", None)}
    /\ UNCHANGED <<mainpc, websites, keywords, due, cpc, wi, ki, results,
                   dispatched, errlog, completed, csv, report, saved,
                   results_df, fn_call, fn_ret>>

\* the probe of a running work item returns; an exception is logged and the
\* probe returns None
WorkerFinish ==
    /\ \E t \in pool :
          /\ t.status = "running"
          /\ \E ret \in ProbeReturns(t.item) :
                /\ pool' = (pool \ {t}) \cup {Task(t.item, "done", ret)}
                /\ errlog' = IF ret = None THEN errlog \cup {t.item} ELSE errlog
                /\ completed' = completed \cup {t.item}
    /\ UNCHANGED <<mainpc, websites, keywords, due, cpc, wi, ki, results,
                   dispatched, csv, report, saved,
                   results_df, fn_call, fn_ret>>

\* requests.get is called without a timeout: the probe may never return
WorkerHang ==
    /\ \E t \in pool :
          /\ t.status = "running"
          /\ pool' = (pool \ {t}) \cup {Task(t.item, "hung", None)}
    /\ UNCHANGED <<mainpc, websites, keywords, due, cpc, wi, ki, results,
                   dispatched, errlog, completed, csv, report, saved,
                   results_df, fn_call, fn_ret>>

\* ---- save_results ----

\* keys whose value is itself optional (None or a value)
OptionalKeys == {"position", "title"}

\* pd.DataFrame(results): the columns are the keys of all dicts, a dict
\* without a key has NaN in its column; NaN and None are both the empty cell
Columns(rs) == UNION {DOMAIN rs[i] : i \in 1..Len(rs)}
Cell(r, c) ==
    IF c \notin DOMAIN r THEN None
    ELSE IF c \in OptionalKeys THEN r[c]
    ELSE Some(r[c])
DataFrame(rs) ==
    [columns |-> Columns(rs),
     rows |-> [i \in 1..Len(rs) |-> [c \in Columns(rs) |-> Cell(rs[i], c)]]]

\* df[df[c].notna()], for a column c of df
NotNa(df, c) == SelectSeq(df.rows, LAMBDA row : row[c] # None)

RECURSIVE Flatten(_)
Flatten(ss) == IF ss = <<>> THEN <<>> ELSE Head(ss) \o Flatten(Tail(ss))

\* the entries of the three sections of the text report
RankLine(row) == [line |-> "rank", website |-> row["website"][1],
                  keyword |-> row["keyword"][1], position |-> row["position"][1]]
PerfLine(row) == [line |-> "perf", url |-> row["url"][1],
                  response_time |-> row["response_time"][1],
                  status_code |-> row["status_code"][1]]
MetaLine(row) == [line |-> "meta", url |-> row["url"][1], title |-> row["title"],
                  h1_count |-> row["h1_count"][1],
                  img_alt_missing |-> row["img_alt_missing"][1]]
MapSeq(f(_), s) == [i \in 1..Len(s) |-> f(s[i])]

RankingsSection(df, sites) ==
    Flatten([i \in 1..Len(sites) |->
        <<[line |-> "website", website |-> sites[i]]>>
        \o MapSeq(RankLine, SelectSeq(NotNa(df, "position"),
                                      LAMBDA row : row["website"] = Some(sites[i])))])
PerformanceSection(df) == MapSeq(PerfLine, NotNa(df, "response_time"))
MetaSection(df) == MapSeq(MetaLine, NotNa(df, "h1_count"))

\* df[c] raises KeyError when no dict of the batch has the key c; the lines
\* written before the exception stay in the file
KeyErrorAt(df) ==
    IF "position" \notin df.columns THEN "position"
    ELSE IF "response_time" \notin df.columns THEN "response_time"
    ELSE IF "h1_count" \notin df.columns THEN "h1_count"
    ELSE "none"

\* a report that repeats the time of the call in a section heading
ReportLinesStamped(df, sites, timestamp) ==
    LET head == <<[line |-> "SEO Monitoring Summary Report"],
                  [line |-> "Generated at", timestamp |-> timestamp],
                  [line |-> "Keyword Rankings:"]>>
        perfhead == <<[line |-> "Performance Metrics:", timestamp |-> timestamp]>>
        metahead == <<[line |-> "Meta Tags Analysis:"]>>
        at == KeyErrorAt(df)
    IN IF at = "position" THEN head
       ELSE IF at = "response_time"
            THEN head \o RankingsSection(df, sites) \o perfhead
       ELSE IF at = "h1_count"
            THEN head \o RankingsSection(df, sites) \o perfhead
                 \o PerformanceSection(df) \o metahead
       ELSE head \o RankingsSection(df, sites) \o perfhead
            \o PerformanceSection(df) \o metahead \o MetaSection(df)

ReportLines(df, sites, timestamp) ==
    LET head == <<[line |-> "SEO Monitoring Summary Report"],
                  [line |-> "Generated at", timestamp |-> timestamp],
                  [line |-> "Keyword Rankings:"]>>
        perfhead == <<[line |-> "Performance Metrics:"]>>
        metahead == <<[line |-> "Meta Tags Analysis:"]>>
        at == KeyErrorAt(df)
    IN IF at = "position" THEN head
       ELSE IF at = "response_time"
            THEN head \o RankingsSection(df, sites) \o perfhead
       ELSE IF at = "h1_count"
            THEN head \o RankingsSection(df, sites) \o perfhead
                 \o PerformanceSection(df) \o metahead
       ELSE head \o RankingsSection(df, sites) \o perfhead
            \o PerformanceSection(df) \o metahead \o MetaSection(df)

\* the values datetime.now() may have when save_results is called
Timestamps == 1..MaxTime

\* save_results, called at the time timestamp with the configured sites: the
\* two files it leaves and how it ended
save_results(rs, sites, timestamp) ==
    LET df == DataFrame(rs)
    IN [csv |-> Some(df),
        report |-> ReportLines(df, sites, timestamp),
        saved |-> IF KeyErrorAt(df) = "none" THEN "ok" ELSE "KeyError"]

\* self.save_results(results) and the return to main: an exception of
\* save_results leaves run_monitoring_cycle and ends the process; after a
\* scheduled run the job is rescheduled.  results keeps the batch handed over.
SaveResults ==
    /\ InCycle /\ cpc = "save"
    /\ \E timestamp \in Timestamps :
          LET out == save_results(results, websites, timestamp)
          IN /\ csv' = out.csv
             /\ report' = out.report
             /\ saved' = out.saved
             /\ mainpc' = IF out.saved = "ok" THEN "loop" ELSE "crashed"
             /\ due' = IF out.saved = "ok" /\ mainpc = "job_cycle" THEN FALSE ELSE due
    /\ cpc' = "idle"
    /\ UNCHANGED <<websites, keywords, wi, ki, results, pool, dispatched, errlog,
                   completed, results_df, fn_call, fn_ret>>

Next ==
    \/ LoadConfig
    \/ ScheduleJob
    \/ Tick
    \/ RunInitial
    \/ RunPending
    \/ RankSubmit
    \/ RankCollect
    \/ SiteSubmit
    \/ MetaCollect
    \/ PerfCollect
    \/ Shutdown
    \/ WorkerStart
    \/ WorkerFinish
    \/ WorkerHang
    \/ SaveResults

Spec == Init /\ [][Next]_vars

\* the scheduling the program relies on: the main thread and the worker
\* threads keep running, and time passes
FairSpec == Spec /\ WF_vars(Next) /\ WF_vars(Tick)

\* ---- the functions called on their own ----

\* the listings a search may return, up to MaxListing entries
ProbeListings == UNION {[1..n -> 0..MaxWebsites] : n \in 0..MaxListing}
ProbeRankFetches == {[raised |-> TRUE, entries |-> <<>>]}
                    \cup {[raised |-> FALSE, entries |-> e] : e \in ProbeListings}

\* the work items of a cycle in the order of their submission
RankList(sites, keys) ==
    [n \in 1..(Len(sites) * Len(keys)) |->
        RankItem(sites[((n - 1) \div Len(keys)) + 1], keys[((n - 1) % Len(keys)) + 1])]
SiteList(sites) ==
    Flatten([i \in 1..Len(sites) |-> <<MetaItem(sites[i]), PerfItem(sites[i])>>])
WorkList(sites, keys) == RankList(sites, keys) \o SiteList(sites)

\* the batches a cycle over the work items can hand to save_results: every
\* probe returns one of its returns, and a None is not appended
Kept(result) == IF Truthy(result) THEN <<result[1]>> ELSE <<>>
RECURSIVE Batches(_)
Batches(items) ==
    IF items = <<>> THEN {<<>>}
    ELSE {Kept(r) \o rest : r \in ProbeReturns(Head(items)), rest \in Batches(Tail(items))}

\* check_keyword_ranking(website, keyword) on a search that returns fetch
CallRanking ==
    /\ fn_call = None
    /\ \E w \in 1..MaxWebsites, k \in 1..MaxKeywords, f \in ProbeRankFetches :
          /\ fn_call' = Some([fn |-> "check_keyword_ranking", website |-> w,
                               keyword |-> k, fetch |-> f])
          /\ fn_ret' = Some(check_keyword_ranking(w, k, f))
    /\ UNCHANGED <<mainpc, websites, keywords, due, cpc, wi, ki, results, pool,
                   dispatched, errlog, completed, csv, report, saved, results_df>>

\* analyze_meta_tags(url) on a page fetch
CallMetaTags ==
    /\ fn_call = None
    /\ \E w \in 1..MaxWebsites, f \in MetaFetches :
          /\ fn_call' = Some([fn |-> "analyze_meta_tags", url |-> w, fetch |-> f])
          /\ fn_ret' = Some(analyze_meta_tags(w, f))
    /\ UNCHANGED <<mainpc, websites, keywords, due, cpc, wi, ki, results, pool,
                   dispatched, errlog, completed, csv, report, saved, results_df>>

\* check_site_performance(url) on a page fetch
CallPerformance ==
    /\ fn_call = None
    /\ \E w \in 1..MaxWebsites, f \in PerfFetches :
          /\ fn_call' = Some([fn |-> "check_site_performance", url |-> w, fetch |-> f])
          /\ fn_ret' = Some(check_site_performance(w, f))
    /\ UNCHANGED <<mainpc, websites, keywords, due, cpc, wi, ki, results, pool,
                   dispatched, errlog, completed, csv, report, saved, results_df>>

\* save_results called twice, at two times, on the same batch of a cycle
CallSaveTwice ==
    /\ fn_call = None
    /\ \E nw \in 0..MaxBatchWebsites, nk \in 0..MaxBatchKeywords :
          LET sites == [i \in 1..nw |-> i]
              keys == [i \in 1..nk |-> i]
          IN \E batch \in Batches(WorkList(sites, keys)), t1 \in Timestamps, t2 \in Timestamps :
                /\ fn_call' = Some([fn |-> "save_results", results |-> batch,
                                     websites |-> sites, timestamps |-> <<t1, t2>>])
                /\ fn_ret' = Some(<<save_results(batch, sites, t1),
                                     save_results(batch, sites, t2)>>)
    /\ UNCHANGED <<mainpc, websites, keywords, due, cpc, wi, ki, results, pool,
                   dispatched, errlog, completed, csv, report, saved, results_df>>

FnNext ==
    \/ CallRanking
    \/ CallMetaTags
    \/ CallPerformance
    \/ CallSaveTwice

FnSpec == Init /\ [][FnNext]_vars

\* ==== properties ====

Range(s) == {s[i] : i \in 1..Len(s)}
Count(s, P(_)) == Cardinality({i \in 1..Len(s) : P(s[i])})

\* the full work list of a cycle
AllWorkItems ==
    {RankItem(w, k) : w \in Range(websites), k \in Range(keywords)}
    \cup {MetaItem(w) : w \in Range(websites)}
    \cup {PerfItem(w) : w \in Range(websites)}

\* the kinds of dict in a batch, told apart by their keys as save_results does
IsRank(r) == "position" \in DOMAIN r
IsMeta(r) == "h1_count" \in DOMAIN r
IsPerf(r) == "response_time" \in DOMAIN r

\* the batch is handed to save_results
AtSave == InCycle /\ cpc = "save"

\* C1: in every cycle the batch handed to save_results holds exactly one
\* entry for every configured (website, keyword) pair, whatever the outcome
\* of check_keyword_ranking, so it holds |websites| x |keywords| rank entries.
C1_OneEntryPerPair ==
    AtSave =>
        /\ \A w \in Range(websites), k \in Range(keywords) :
              Count(results, LAMBDA r : IsRank(r) /\ r.website = w /\ r.keyword = k) = 1
        /\ Count(results, IsRank) = Len(websites) * Len(keywords)

\* C2: in every cycle the batch handed to save_results holds exactly one
\* attribute entry and exactly one performance entry for every website.
C2_OneEntryPerWebsite ==
    AtSave =>
        \A w \in Range(websites) :
            /\ Count(results, LAMBDA r : IsMeta(r) /\ r.url = w) = 1
            /\ Count(results, LAMBDA r : IsPerf(r) /\ r.url = w) = 1

\* a report with its three sections written
CompleteReport ==
    /\ csv # None
    /\ \E i \in 1..Len(report) : report[i].line = "Meta Tags Analysis:"

\* C3: with websites and keywords configured, a cycle in which probes failed,
\* all of them included, still runs save_results to completion and leaves a
\* complete report.
C3_FailuresDoNotAbort ==
    (saved # "no" /\ Len(websites) > 0 /\ Len(keywords) > 0 /\ errlog = AllWorkItems)
        => (saved = "ok" /\ CompleteReport)

\* C4: never more than max_workers probes execute at once, and when the batch
\* is handed to save_results every work item of the cycle has been dispatched
\* and has completed.
C4_BoundedConcurrency ==
    /\ Cardinality(Running) <= max_workers
    /\ AtSave => /\ Range(dispatched) = AllWorkItems
                 /\ AllWorkItems \subseteq completed
                 /\ \A t \in pool : t.status = "done"

\* a cycle with more work items than workers reaches save_results
C4_Witness ==
    AtSave /\ Cardinality(AllWorkItems) > max_workers /\ Len(results) > max_workers

\* the main thread waits for a probe that never returns and no other work
\* item is queued or running
Hung(item) == \E t \in pool : t.item = item /\ t.status = "hung"
BlockedOnHang ==
    /\ InCycle
    /\ \A t \in pool : t.status \in {"hung", "done"}
    /\ \/ cpc = "rank_wait" /\ Hung(RankItem(websites[wi], keywords[ki]))
       \/ cpc = "meta_wait" /\ Hung(MetaItem(websites[wi]))
       \/ cpc = "perf_wait" /\ Hung(PerfItem(websites[wi]))

\* C5: a probe that hangs blocks only the completion of the cycle: once the
\* cycle has come to rest behind hung probes, every other work item has been
\* dispatched and has run to completion.
C5_HangBlocksOnlyCompletion ==
    BlockedOnHang =>
        \A item \in AllWorkItems : Hung(item) \/ item \in completed

\* websites and keywords are configured: the work list has all three kinds
ConfiguredWork == Len(websites) > 0 /\ Len(keywords) > 0

\* C6: once a configuration with websites and keywords has loaded, no outcome
\* of the probes makes an error leave run_monitoring_cycle and end the
\* process.
C6_NoErrorEscapes == ConfiguredWork => mainpc # "crashed"

\* C7: a report written to its end lists every configured website once in
\* the performance section and once in the attribute section, a website
\* whose probe failed included.
C7_OneRowPerWebsite ==
    saved = "ok" =>
        \A w \in Range(websites) :
            /\ Count(report, LAMBDA l : l.line = "perf" /\ l.url = w) = 1
            /\ Count(report, LAMBDA l : l.line = "meta" /\ l.url = w) = 1

\* the keywords of the ranking entries listed under a website, in file order
RankedKeywords(w) ==
    LET lines == SelectSeq(report, LAMBDA l : l.line = "rank" /\ l.website = w)
    IN [i \in 1..Len(lines) |-> lines[i].keyword]

\* C8: in a report written to its end the rankings section lists, for every
\* website, one entry per configured keyword in the configured order, a
\* keyword without a match included.
C8_RankingsPerKeyword ==
    saved = "ok" => \A w \in Range(websites) : RankedKeywords(w) = keywords

\* C9: the record dump and the text report of a cycle agree on the number of
\* rank, performance and attribute entries.
C9_ArtifactsAgree ==
    saved = "ok" =>
        /\ Count(csv[1].rows, LAMBDA row : row["keyword"] # None)
              = Count(report, LAMBDA l : l.line = "rank")
        /\ Count(csv[1].rows, LAMBDA row : row["response_time"] # None)
              = Count(report, LAMBDA l : l.line = "perf")
        /\ Count(csv[1].rows, LAMBDA row : row["h1_count"] # None)
              = Count(report, LAMBDA l : l.line = "meta")

\* run_monitoring_cycle has just been entered
CycleStarting == InCycle /\ cpc = "rank" /\ dispatched = <<>>

\* C10: after startup a cycle is started again and again, for ever.  The
\* executions in which the configuration does not load or has no websites or
\* no keywords, and those in which a probe never returns, are left out of
\* the statement.
C10_CyclesForever ==
    []<>(\/ CycleStarting
         \/ mainpc \in {"load", "config_failed"}
         \/ ~ConfiguredWork
         \/ \E t \in pool : t.status = "hung")

\* the function called on its own is fn
Called(fn) == fn_call # None /\ fn_call[1].fn = fn

\* C11: check_site_performance returns a performance result that carries the
\* status of the response whatever that status is, and fails exactly when the
\* fetch itself raises.
C11_StatusIsData ==
    Called("check_site_performance") =>
        LET fetch == fn_call[1].fetch
            result == fn_ret[1]
        IN /\ (result = None) <=> fetch.raised
           /\ ~fetch.raised => /\ result[1].status_code = fetch.status
                               /\ result[1].url = fn_call[1].url

\* a response with status 404 gave a performance result
C11_Witness ==
    /\ Called("check_site_performance")
    /\ ~fn_call[1].fetch.raised
    /\ fn_call[1].fetch.status = 404
    /\ fn_ret[1] # None

\* C15: check_keyword_ranking returns the 1-based index of the first entry
\* of the listing that contains the website, and an absent position when no
\* entry contains it.
C15_FirstMatchingEntry ==
    (Called("check_keyword_ranking") /\ ~fn_call[1].fetch.raised) =>
        LET entries == fn_call[1].fetch.entries
            website == fn_call[1].website
            result == fn_ret[1][1]
            matches == {i \in 1..Len(entries) : entries[i] = website}
        IN /\ result.website = website
           /\ result.keyword = fn_call[1].keyword
           /\ IF matches = {} THEN result.position = None
              ELSE /\ result.position # None
                   /\ result.position[1] \in matches
                   /\ \A i \in matches : result.position[1] <= i

\* three entries, the website in the second one only: position 2
C15_Witness ==
    /\ Called("check_keyword_ranking")
    /\ ~fn_call[1].fetch.raised
    /\ Len(fn_call[1].fetch.entries) = 3
    /\ {i \in 1..3 : fn_call[1].fetch.entries[i] = fn_call[1].website} = {2}
    /\ fn_ret[1][1].position = Some(2)

\* C16: in the batch of every cycle the position of a rank result is absent
\* or an integer >= 1, and a rank check that failed has left no rank result,
\* so an absent position only stands for a website that was not found.
C16_PositionsPositive ==
    /\ \A i \in 1..Len(results) :
          IsRank(results[i]) =>
              \/ results[i].position = None
              \/ results[i].position[1] >= 1
    /\ \A item \in errlog :
          item.kind = "rank" =>
              \A i \in 1..Len(results) :
                  IsRank(results[i]) =>
                      ~(results[i].website = item.website
                        /\ results[i].keyword = item.keyword)

\* a batch with a found and a not found rank result after a failed rank check
C16_Witness ==
    /\ AtSave
    /\ \E item \in errlog : item.kind = "rank"
    /\ \E i \in 1..Len(results) : IsRank(results[i]) /\ results[i].position = None
    /\ \E i \in 1..Len(results) : IsRank(results[i]) /\ results[i].position = Some(2)

\* C12 as stated: save_results applied twice to the same results list leaves
\* the same record dump and the same summary text.
C12_SaveTwiceIdentical ==
    Called("save_results") =>
        /\ fn_ret[1][1].csv = fn_ret[1][2].csv
        /\ fn_ret[1][1].report = fn_ret[1][2].report

\* the lines of a report other than its "Generated at" line
Undated(lines) == SelectSeq(lines, LAMBDA l : l.line # "Generated at")

\* C12 amended: save_results applied twice to the same results list leaves
\* the same record dump and ends the same way, and the two summary texts
\* differ at most in the "Generated at" line, which carries the time of the
\* call; they are identical when both calls read the same time.
C12_SaveTwiceSameButDate ==
    Called("save_results") =>
        LET first == fn_ret[1][1]
            second == fn_ret[1][2]
            times == fn_call[1].timestamps
        IN /\ first.csv = second.csv
           /\ first.saved = second.saved
           /\ Undated(first.report) = Undated(second.report)
           /\ Len(first.report) = Len(second.report)
           /\ times[1] = times[2] => first.report = second.report

\* a batch with the three kinds of result, saved at two different times
C12_Witness ==
    /\ Called("save_results")
    /\ fn_call[1].timestamps[1] # fn_call[1].timestamps[2]
    /\ Len(fn_call[1].results) = 3
    /\ fn_ret[1][1].saved = "ok"

IsPrefix(s, t) == Len(s) <= Len(t) /\ SubSeq(t, 1, Len(s)) = s

\* C13: the batch is empty when a cycle starts and only grows at its end
\* while the cycle runs; it is handed to save_results once, when every
\* dispatched probe has returned, and neither the batch nor the files change
\* after that until the next cycle starts.
C13_BatchLifecycle ==
    [][/\ (~InCycle /\ InCycle') => (results' = <<>> /\ saved' = "no")
       /\ (InCycle /\ InCycle') => (IsPrefix(results, results') /\ saved' = "no")
       /\ (InCycle /\ ~InCycle') =>
              /\ AtSave
              /\ Range(dispatched) \subseteq completed
              /\ \A t \in pool : t.status = "done"
              /\ results' = results
              /\ saved' # "no"
       /\ (~InCycle /\ ~InCycle') => UNCHANGED <<results, csv, report, saved>>
      ]_vars

\* a batch of several results has been handed over
C13_Witness == saved = "ok" /\ mainpc = "loop" /\ Len(results) >= 3

\* C14: the work items dispatched so far are the first ones of the full work
\* list, each once and in its order, whatever the probes before them
\* returned; the main thread can always collect a probe that failed, and at
\* the end of the cycle the whole list has been dispatched and executed.
C14_EachItemDispatchedOnce ==
    /\ IsPrefix(dispatched, WorkList(websites, keywords))
    /\ \A i, j \in 1..Len(dispatched) : i # j => dispatched[i] # dispatched[j]
    /\ (cpc = "rank_wait" /\ RankItem(websites[wi], keywords[ki]) \in errlog)
          => ENABLED RankCollect
    /\ (cpc = "meta_wait" /\ MetaItem(websites[wi]) \in errlog) => ENABLED MetaCollect
    /\ (cpc = "perf_wait" /\ PerfItem(websites[wi]) \in errlog) => ENABLED PerfCollect
    /\ AtSave => /\ dispatched = WorkList(websites, keywords)
                 /\ Range(dispatched) \subseteq completed

\* the first probe failed and every later work item was dispatched and run
C14_Witness ==
    /\ AtSave
    /\ Len(dispatched) > 2
    /\ dispatched[1] \in errlog
    /\ Range(dispatched) \subseteq completed

\* the work item a dict of the batch comes from
ItemOf(r) ==
    IF IsRank(r) THEN RankItem(r.website, r.keyword)
    ELSE IF IsMeta(r) THEN MetaItem(r.url)
    ELSE PerfItem(r.url)

\* C17: a cycle starts from an empty batch, the batch handed to save_results
\* holds exactly the results of the probes that succeeded in this cycle, and
\* no step after construction changes websites, keywords or results_df.
C17_NoCarryOver ==
    /\ [][/\ mainpc # "load" => UNCHANGED <<websites, keywords, results_df>>
          /\ (~InCycle /\ InCycle') => (results' = <<>> /\ pool' = {})
         ]_vars
    /\ [](AtSave =>
            [i \in 1..Len(results) |-> ItemOf(results[i])]
                = SelectSeq(WorkList(websites, keywords),
                            LAMBDA item : item \in completed /\ item \notin errlog))

\* a scheduled cycle, after the initial one, hands over its batch
C17_Witness == AtSave /\ mainpc = "job_cycle" /\ Len(results) > 0

\* a work item has been taken by a worker
Started(item) ==
    \/ item \in completed
    \/ \E t \in pool : t.item = item /\ t.status # "queued"

\* C18: at most 2 work items are in the executor at once; a rank check is
\* there alone, two work items there are the attribute and the performance
\* probe of one website, and a work item only starts when all work items
\* dispatched before it, its partner of the same website apart, have returned.
C18_AtMostTwoInFlight ==
    /\ Cardinality(pool) <= 2
    /\ Cardinality(Running) <= 2
    /\ \A t1, t2 \in pool :
          t1 # t2 => /\ {t1.item.kind, t2.item.kind} = {"meta", "perf"}
                     /\ t1.item.website = t2.item.website
    /\ \A i, j \in 1..Len(dispatched) :
          (i < j /\ Started(dispatched[j])) =>
              \/ dispatched[i] \in completed
              \/ /\ dispatched[i].kind = "meta"
                 /\ dispatched[j].kind = "perf"
                 /\ dispatched[i].website = dispatched[j].website

\* the two probes of a website run at the same time
C18_Witness == Cardinality({t \in pool : t.status = "running"}) = 2

\* C19: a cycle only starts when no cycle is running: the main thread is
\* outside run_monitoring_cycle, no work item of an earlier cycle is left, and
\* a cycle before it has returned from save_results.
C19_CyclesDoNotOverlap ==
    [][(CycleStarting' /\ ~CycleStarting) =>
          /\ ~InCycle
          /\ cpc = "idle"
          /\ pool = {}
          /\ mainpc = "loop" => saved = "ok"
      ]_vars

\* the job is due again while a scheduled cycle is still waiting for a probe
C19_Witness == mainpc = "job_cycle" /\ due /\ cpc = "rank_wait"

====
